---- MODULE Spec2Model ----
(***************************************************************************)
(* Live-chat relay (socket.io server + supabase store).                    *)
(*                                                                         *)
(* State: the three in-memory maps of `sessions`, the rows of the          *)
(* `livechat` table, the room membership kept by the transport, and one    *)
(* record per running async handler.  Every `await` of a store call is a   *)
(* suspension point: the store executes the query in one step and the      *)
(* handler resumes in a later one, so handlers of different (or the same)  *)
(* sockets interleave exactly there.                                       *)
(***************************************************************************)
EXTENDS Integers, Sequences, FiniteSets, TLC

\* ---------------------------------------------------------------- bounds
MaxTime   == 2    \* the clock runs 0..MaxTime (one unit = one hour)
MaxEvents == 2    \* client events (joins and sends) accepted in one behaviour

\* ------------------------------------------------------- program constant
Hour == 1         \* 60 * 60 * 1000 ms, in clock units of one hour

\* ----------------------------------------------------------- input sets
Sockets  == {"s1", "s2"}
Convs    == {"c1", "c2"}
Bots     == {"bot"}
Users    == {"u1"}
Emails   == {"a@x"}
Senders  == {"customer"}

VARIABLES
  now,            \* Date.now()
  conn,           \* socket state: "open" | "closed"
  customers,      \* sessions.customers     : Map socket.id -> session
  agents,         \* sessions.agents        : Map socket.id -> {convId}
  conversations,  \* sessions.conversations : Map convId -> summary
  store,          \* table livechat         : live_chat_id -> row
  rooms,          \* transport rooms: socket -> set of convId (room conv-<id>)
  handlers,       \* the async handlers that are suspended on a store call
  nevents,        \* number of client events received so far
  last,           \* what the last step did and emitted
  published,      \* history: messages ever emitted as message:received
  failedMsgs,     \* history: messages whose message:send had a store call fail
  raced,          \* history: pairs of sends that both read before either wrote
  creator,        \* history: convId -> first socket whose join upserted its row
  chain           \* history: per socket, its current run of sequential sends

vars == <<now, conn, customers, agents, conversations, store, rooms, handlers,
          nevents, last, published, failedMsgs, raced, creator, chain>>

\* ------------------------------------------------------------- values
NullMsg == [text |-> -1, sender |-> "null", timestamp |-> -1, convId |-> "null"]
Null    == "null"

OldMsg(k) == [text |-> 0, sender |-> "customer", timestamp |-> 0, convId |-> k]

NoStep == [kind |-> "none", sock |-> "none", convId |-> "none",
           outcome |-> "none", message |-> NullMsg, dirty |-> {},
           emits |-> <<>>]

NoChain == [convId |-> "none", base |-> <<>>, msgs |-> <<>>, live |-> FALSE]

EmptyMap == [x \in {} |-> Null]

\* Map.set / Map.delete on a function whose domain is the key set
Put(m, k, v) == [x \in (DOMAIN m) \cup {k} |-> IF x = k THEN v ELSE m[x]]
Del(m, k)    == [x \in (DOMAIN m) \ {k} |-> m[x]]

Open == {c \in Sockets : conn[c] = "open"}

\* -------------------------------------------------------------- emission
\* socket.emit('error', reason) addresses the socket itself
ErrorToAll(c, reason) ==
  [ev |-> "error", to |-> Sockets, reason |-> reason]
ErrorEmit(c, reason) ==
  [ev |-> "error", to |-> {c}, reason |-> reason]

\* io.emit('chat:updated', Array.from(sessions.conversations.values()))
Snapshot(idx) == {idx[k] : k \in DOMAIN idx}
ChatUpdated(idx) ==
  [ev |-> "chat:updated", to |-> Open, summaries |-> Snapshot(idx)]

\* io.to(`conv-${convId}`).emit('message:received', message): the sockets in
\* the room that are still connected
MessageReceivedToAll(k, message, rms) ==
  [ev |-> "message:received", to |-> Open, message |-> message]
RoomMembers(k, rms) == {c \in Open : k \in rms[c]}
MessageReceived(k, message, rms) ==
  [ev |-> "message:received", to |-> RoomMembers(k, rms), message |-> message]

ChatJoinedToAll(c, k, email) ==
  [ev |-> "chat:joined", to |-> Open, ack |-> [convId |-> k, customerEmail |-> email]]
ChatJoined(c, k, email) ==
  [ev |-> "chat:joined", to |-> {c}, ack |-> [convId |-> k, customerEmail |-> email]]

\* ------------------------------------------------------------------ store
\* getConversationMessages: data[0].live_message, or { messages: [] }
ReadLog(k) == IF k \in DOMAIN store THEN store[k].messages ELSE <<>>

\* upsert(..., {onConflict: live_chat_id}): columns named in the payload are
\* replaced, the other columns of an existing row are kept
OldRow(k) ==
  IF k \in DOMAIN store THEN store[k]
  ELSE [messages |-> <<>>, customer_name |-> Null, chatbot_id |-> Null,
        user_id |-> Null]

\* the row written by customer:join (lines 110-116)
JoinRow(h) ==
  [OldRow(h.convId) EXCEPT
     !.messages = <<>>,
     !.customer_name = h.customerEmail,
     !.chatbot_id = h.chatbotId]

\* updatedMessages = [...(currentMessages.messages || []), message]
PrependMessage(cur, message) == <<message>> \o cur
UpdatedMessages(cur, message) == Append(cur, message)

\* the row written by message:send (lines 178-183)
SendRowOnStoredLog(h) ==
  [OldRow(h.convId) EXCEPT
     !.messages = Append(ReadLog(h.convId), h.message),
     !.chatbot_id = h.chatbotId,
     !.user_id = h.userId]
SendRow(h) ==
  [OldRow(h.convId) EXCEPT
     !.messages = UpdatedMessages(h.cur, h.message),
     !.chatbot_id = h.chatbotId,
     !.user_id = h.userId]

\* ---------------------------------------------------------------- helpers
\* a handler starts: the event's payload, suspended on its first store call
NewHandler(kind, c, k, bot, user, email, message) ==
  [id |-> nevents + 1, kind |-> kind, sock |-> c, convId |-> k,
   chatbotId |-> bot, userId |-> user, customerEmail |-> email,
   pc |-> "read", cur |-> <<>>, message |-> message, dirty |-> {}]

Resume(h, g) == (handlers \ {h}) \cup {g}
Finish(h)    == handlers \ {h}

InFlightSends(c) ==
  {h \in handlers : h.kind = "message:send" /\ h.sock = c}

Step(h, outcome, dirty, emits) ==
  [kind |-> h.kind, sock |-> h.sock, convId |-> h.convId, outcome |-> outcome,
   message |-> h.message, dirty |-> dirty, emits |-> emits]

\* a write to conversation k by handler h ends every other socket's run of
\* sequential sends on k (and the writer's own, unless it is its send)
BreakChains(h) ==
  [c \in Sockets |->
     IF /\ chain[c].live
        /\ chain[c].convId = h.convId
        /\ ~(h.sock = c /\ h.kind = "message:send")
     THEN [chain[c] EXCEPT !.live = FALSE]
     ELSE chain[c]]

\* ------------------------------------------------------------------- Init
\* The table outlives the process: it is empty, or conversation c1 has a row
\* with one message from an earlier run.  Both sockets are connected.
InitStores ==
  { EmptyMap,
    [k \in {"c1"} |->
       [messages |-> <<OldMsg(k)>>, customer_name |-> "a@x",
        chatbot_id |-> "bot", user_id |-> "u1"]] }

Init ==
  /\ now = 0
  /\ conn = [c \in Sockets |-> "open"]
  /\ customers = EmptyMap
  /\ agents = EmptyMap
  /\ conversations = EmptyMap      \* loadActiveConversations() is commented out
  /\ store \in InitStores
  /\ rooms = [c \in Sockets |-> {}]
  /\ handlers = {}
  /\ nevents = 0
  /\ last = NoStep
  /\ published = {}
  /\ failedMsgs = {}
  /\ raced = {}
  /\ creator = [k \in Convs |-> "none"]
  /\ chain = [c \in Sockets |-> NoChain]

\* ------------------------------------------------------ transport events
\* the wall clock
Tick ==
  /\ now < MaxTime
  /\ now' = now + 1
  /\ last' = NoStep
  /\ UNCHANGED <<conn, customers, agents, conversations, store, rooms, handlers,
                 nevents, published, failedMsgs, raced, creator, chain>>

\* socket.on('disconnect'): both session records go; the transport empties
\* the socket's rooms
Disconnect(c) ==
  /\ conn[c] = "open"
  /\ conn' = [conn EXCEPT ![c] = "closed"]
  /\ customers' = IF c \in DOMAIN customers THEN Del(customers, c) ELSE customers
  /\ agents' = IF c \in DOMAIN agents THEN Del(agents, c) ELSE agents
  /\ rooms' = [rooms EXCEPT ![c] = {}]
  /\ last' = [NoStep EXCEPT !.kind = "disconnect", !.sock = c, !.outcome = "ok"]
  /\ UNCHANGED <<now, conversations, store, handlers, nevents, published,
                 failedMsgs, raced, creator, chain>>

\* ------------------------------------------------------- the store's side
\* supabase answers a select: { data, error }
StoreSelectInOrder(h) ==
  /\ h.pc = "read"
  /\ \A g \in handlers : g.pc \in {"read", "upsert"} => g.id >= h.id
  /\ \E ok \in BOOLEAN :
       /\ handlers' = Resume(h, [h EXCEPT
            !.pc = IF ok THEN "rows" ELSE "readError",
            !.cur = IF ok THEN ReadLog(h.convId) ELSE <<>>])
       /\ failedMsgs' = IF ~ok /\ h.kind = "message:send"
                        THEN failedMsgs \cup {h.message}
                        ELSE failedMsgs
       /\ raced' = IF ok /\ h.kind = "message:send"
                   THEN raced \cup
                        { {h.id, g.id} :
                            g \in {x \in handlers \ {h} :
                                     /\ x.kind = "message:send"
                                     /\ x.convId = h.convId
                                     /\ x.pc \in {"rows", "upsert"}} }
                   ELSE raced
  /\ last' = NoStep
  /\ UNCHANGED <<now, conn, customers, agents, conversations, store, rooms,
                 nevents, published, creator, chain>>
StoreSelect(h) ==
  /\ h.pc = "read"
  /\ \E ok \in BOOLEAN :
       /\ handlers' = Resume(h, [h EXCEPT
            !.pc = IF ok THEN "rows" ELSE "readError",
            !.cur = IF ok THEN ReadLog(h.convId) ELSE <<>>])
       /\ failedMsgs' = IF ~ok /\ h.kind = "message:send"
                        THEN failedMsgs \cup {h.message}
                        ELSE failedMsgs
       /\ raced' = IF ok /\ h.kind = "message:send"
                   THEN raced \cup
                        { {h.id, g.id} :
                            g \in {x \in handlers \ {h} :
                                     /\ x.kind = "message:send"
                                     /\ x.convId = h.convId
                                     /\ x.pc \in {"rows", "upsert"}} }
                   ELSE raced
  /\ last' = NoStep
  /\ UNCHANGED <<now, conn, customers, agents, conversations, store, rooms,
                 nevents, published, creator, chain>>

\* supabase answers an upsert: { error }; a failed upsert changes no row
StoreUpsert(h) ==
  /\ h.pc = "upsert"
  /\ \E ok \in BOOLEAN :
       /\ handlers' = Resume(h, [h EXCEPT
            !.pc = IF ok THEN "upserted" ELSE "upsertError"])
       /\ store' = IF ok
                   THEN Put(store, h.convId,
                            IF h.kind = "customer:join"
                            THEN JoinRow(h) ELSE SendRow(h))
                   ELSE store
       /\ failedMsgs' = IF ~ok /\ h.kind = "message:send"
                        THEN failedMsgs \cup {h.message}
                        ELSE failedMsgs
       /\ creator' = IF /\ ok
                         /\ h.kind = "customer:join"
                         /\ creator[h.convId] = "none"
                      THEN [creator EXCEPT ![h.convId] = h.sock]
                      ELSE creator
       /\ chain' = IF ok THEN BreakChains(h) ELSE chain
       /\ last' = IF ok /\ h.kind = "customer:join"
                  THEN Step(h, "created", {}, <<>>)
                  ELSE NoStep
  /\ UNCHANGED <<now, conn, customers, agents, conversations, rooms, nevents,
                 published, raced>>

\* ---------------------------------------------------------- customer:join
\* the event arrives; the handler runs to its first await (line 99)
CustomerJoin(c, k, bot, user, email) ==
  /\ conn[c] = "open"
  /\ nevents < MaxEvents
  /\ nevents' = nevents + 1
  /\ handlers' = handlers \cup
       {NewHandler("customer:join", c, k, bot, user, email, NullMsg)}
  /\ last' = NoStep
  /\ UNCHANGED <<now, conn, customers, agents, conversations, store, rooms,
                 published, failedMsgs, raced, creator, chain>>

\* const isNewConversation = !existingMessages.messages.length
IsNewAlways(existing) == TRUE
IsNewConversation(existing) == Len(existing) = 0

Session(h) ==
  [convId |-> h.convId, chatbotId |-> h.chatbotId, userId |-> h.userId,
   customerEmail |-> h.customerEmail]

Summary(h) ==
  [convId |-> h.convId, chatbotId |-> h.chatbotId,
   customerEmail |-> h.customerEmail, timestamp |-> now,
   lastMessage |-> NullMsg]

\* catch (error) { socket.emit('error', ...) }: the handler ends; the step is
\* recorded with the store call that failed ("readError" or "upsertError")
Catch(h, reason) ==
  /\ handlers' = Finish(h)
  /\ last' = Step(h, h.pc, h.dirty, <<ErrorEmit(h.sock, reason)>>)

\* lines 130-134: socket.join, io.emit('chat:updated'), socket.emit('chat:joined')
JoinTail(h, idx, dirty) ==
  /\ rooms' = [rooms EXCEPT ![h.sock] = @ \cup {h.convId}]
  /\ handlers' = Finish(h)
  /\ last' = Step(h, "ok",
                  dirty \cup (IF rooms' # rooms THEN {"rooms"} ELSE {}),
                  <<ChatUpdated(idx),
                    ChatJoined(h.sock, h.convId, h.customerEmail)>>)

\* the handler resumes from `await getConversationMessages(convId)`
CustomerJoinReadSubscribesFirst(h) ==
  /\ h.kind = "customer:join"
  /\ h.pc \in {"rows", "readError"}
  /\ IF h.pc = "readError"
     THEN /\ Catch(h, "Failed to join chat session")
          /\ UNCHANGED <<customers, rooms>>
     ELSE LET dirty == IF Put(customers, h.sock, Session(h)) # customers
                       THEN {"customers"} ELSE {}
          IN /\ customers' = Put(customers, h.sock, Session(h))
             /\ IF IsNewConversation(h.cur)
                THEN /\ rooms' = [rooms EXCEPT ![h.sock] = @ \cup {h.convId}]
                     /\ handlers' = Resume(h, [h EXCEPT
                          !.pc = "upsert",
                          !.dirty = dirty \cup (IF rooms' # rooms
                                                THEN {"rooms"} ELSE {})])
                     /\ last' = NoStep
                ELSE JoinTail(h, conversations, dirty)
  /\ UNCHANGED <<now, conn, agents, conversations, store, nevents, published,
                 failedMsgs, raced, creator, chain>>
CustomerJoinRead(h) ==
  /\ h.kind = "customer:join"
  /\ h.pc \in {"rows", "readError"}
  /\ IF h.pc = "readError"
     THEN /\ Catch(h, "Failed to join chat session")
          /\ UNCHANGED <<customers, rooms>>
     ELSE LET dirty == IF Put(customers, h.sock, Session(h)) # customers
                       THEN {"customers"} ELSE {}
          IN /\ customers' = Put(customers, h.sock, Session(h))
             /\ IF IsNewConversation(h.cur)
                THEN /\ handlers' = Resume(h, [h EXCEPT !.pc = "upsert",
                                                        !.dirty = dirty])
                     /\ last' = NoStep
                     /\ UNCHANGED rooms
                ELSE JoinTail(h, conversations, dirty)
  /\ UNCHANGED <<now, conn, agents, conversations, store, nevents, published,
                 failedMsgs, raced, creator, chain>>

\* the handler resumes from `await supabase.from('livechat').upsert(...)`
CustomerJoinUpsert(h) ==
  /\ h.kind = "customer:join"
  /\ h.pc \in {"upserted", "upsertError"}
  /\ IF h.pc = "upsertError"
     THEN /\ Catch(h, "Failed to join chat session")
          /\ UNCHANGED <<conversations, rooms>>
     ELSE /\ conversations' = Put(conversations, h.convId, Summary(h))
          /\ JoinTail(h, conversations',
                      h.dirty \cup (IF conversations' # conversations
                                    THEN {"conversations"} ELSE {}))
  /\ UNCHANGED <<now, conn, customers, agents, store, nevents, published,
                 failedMsgs, raced, creator, chain>>

\* ------------------------------------------------------------- agent:join
AgentJoin(c, k) ==
  /\ conn[c] = "open"
  /\ nevents < MaxEvents
  /\ nevents' = nevents + 1
  /\ handlers' = handlers \cup
       {NewHandler("agent:join", c, k, Null, Null, Null, NullMsg)}
  /\ last' = NoStep
  /\ UNCHANGED <<now, conn, customers, agents, conversations, store, rooms,
                 published, failedMsgs, raced, creator, chain>>

AgentJoinReadIndexes(h) ==
  /\ h.kind = "agent:join"
  /\ h.pc \in {"rows", "readError"}
  /\ IF h.pc = "readError"
     THEN /\ Catch(h, "Failed to join conversation")
          /\ UNCHANGED <<agents, rooms, conversations>>
     ELSE /\ agents' = Put(agents, h.sock, [convId |-> h.convId])
          /\ rooms' = [rooms EXCEPT ![h.sock] = @ \cup {h.convId}]
          /\ conversations' = Put(conversations, h.convId, Summary(h))
          /\ handlers' = Finish(h)
          /\ last' = Step(h, "ok",
                          (IF agents' # agents THEN {"agents"} ELSE {}) \cup
                          (IF rooms' # rooms THEN {"rooms"} ELSE {}),
                          <<>>)
  /\ UNCHANGED <<now, conn, customers, store, nevents, published,
                 failedMsgs, raced, creator, chain>>
AgentJoinRead(h) ==
  /\ h.kind = "agent:join"
  /\ h.pc \in {"rows", "readError"}
  /\ IF h.pc = "readError"
     THEN /\ Catch(h, "Failed to join conversation")
          /\ UNCHANGED <<agents, rooms>>
     ELSE /\ agents' = Put(agents, h.sock, [convId |-> h.convId])
          /\ rooms' = [rooms EXCEPT ![h.sock] = @ \cup {h.convId}]
          /\ handlers' = Finish(h)
          /\ last' = Step(h, "ok",
                          (IF agents' # agents THEN {"agents"} ELSE {}) \cup
                          (IF rooms' # rooms THEN {"rooms"} ELSE {}),
                          <<>>)
  /\ UNCHANGED <<now, conn, customers, conversations, store, nevents, published,
                 failedMsgs, raced, creator, chain>>

\* ----------------------------------------------------------- message:send
\* the event arrives: the message gets the server's timestamp and the handler
\* runs to `await getConversationMessages(convId)` (lines 160-169).  The text
\* of the n-th event is n, so that the messages of different events differ.
MessageSend(c, k, bot, user, sender) ==
  /\ conn[c] = "open"
  /\ nevents < MaxEvents
  /\ nevents' = nevents + 1
  /\ handlers' = handlers \cup
       {NewHandler("message:send", c, k, bot, user, Null,
                   [text |-> nevents + 1, sender |-> sender,
                    timestamp |-> now, convId |-> k])}
  /\ chain' = [chain EXCEPT ![c] =
       IF InFlightSends(c) # {}
       THEN [@ EXCEPT !.live = FALSE]
       ELSE IF @.live /\ @.convId = k
            THEN @
            ELSE [convId |-> k, base |-> ReadLog(k), msgs |-> <<>>,
                  live |-> TRUE]]
  /\ last' = NoStep
  /\ UNCHANGED <<now, conn, customers, agents, conversations, store, rooms,
                 published, failedMsgs, raced, creator>>

\* lines 199-202
SendFail(h) ==
  /\ Catch(h, "Failed to send message")
  /\ chain' = [chain EXCEPT ![h.sock].live = FALSE]
  /\ UNCHANGED <<conversations, published>>

\* lines 187-198: broadcast to the room, then touch the index entry if there
\* is one and rebroadcast the index
SendSucceedIndexes(h) ==
  LET k   == h.convId
      m   == h.message
      idx == IF k \in DOMAIN conversations
             THEN [conversations EXCEPT ![k].lastMessage = m,
                                        ![k].timestamp = now]
             ELSE Put(conversations, k,
                      [convId |-> k, chatbotId |-> h.chatbotId,
                       customerEmail |-> Null, timestamp |-> now,
                       lastMessage |-> m])
  IN /\ conversations' = idx
     /\ published' = published \cup {m}
     /\ handlers' = Finish(h)
     /\ last' = Step(h, "ok",
                     IF idx # conversations THEN {"conversations"} ELSE {},
                     <<MessageReceived(k, m, rooms), ChatUpdated(idx)>>)
     /\ chain' = [chain EXCEPT ![h.sock].msgs =
                    IF chain[h.sock].live THEN Append(@, m) ELSE @]
SendSucceed(h) ==
  LET k   == h.convId
      m   == h.message
      idx == IF k \in DOMAIN conversations
             THEN [conversations EXCEPT ![k].lastMessage = m,
                                        ![k].timestamp = now]
             ELSE conversations
  IN /\ conversations' = idx
     /\ published' = published \cup {m}
     /\ handlers' = Finish(h)
     /\ last' = Step(h, "ok",
                     IF idx # conversations THEN {"conversations"} ELSE {},
                     <<MessageReceived(k, m, rooms)>> \o
                     (IF k \in DOMAIN conversations
                      THEN <<ChatUpdated(idx)>> ELSE <<>>))
     /\ chain' = [chain EXCEPT ![h.sock].msgs =
                    IF chain[h.sock].live THEN Append(@, m) ELSE @]

\* the handler resumes from `await getConversationMessages(convId)` and
\* issues the upsert of the full log
MessageSendRead(h) ==
  /\ h.kind = "message:send"
  /\ h.pc \in {"rows", "readError"}
  /\ IF h.pc = "readError"
     THEN SendFail(h)
     ELSE /\ handlers' = Resume(h, [h EXCEPT !.pc = "upsert"])
          /\ last' = NoStep
          /\ UNCHANGED <<conversations, published, chain>>
  /\ UNCHANGED <<now, conn, customers, agents, store, rooms, nevents, failedMsgs,
                 raced, creator>>

\* the handler resumes from the upsert: `if (updateError) throw updateError`
MessageSendUpsertUnchecked(h) ==
  /\ h.kind = "message:send"
  /\ h.pc \in {"upserted", "upsertError"}
  /\ SendSucceed(h)
  /\ UNCHANGED <<now, conn, customers, agents, store, rooms, nevents, failedMsgs,
                 raced, creator>>
MessageSendUpsert(h) ==
  /\ h.kind = "message:send"
  /\ h.pc \in {"upserted", "upsertError"}
  /\ IF h.pc = "upsertError" THEN SendFail(h) ELSE SendSucceed(h)
  /\ UNCHANGED <<now, conn, customers, agents, store, rooms, nevents, failedMsgs,
                 raced, creator>>

\* ------------------------------------------------------- eviction sweeper
\* new Date(conv.timestamp) < oneHourAgo
StaleInclusive(conv, t) == conv.timestamp <= t - Hour
Stale(conv, t) == conv.timestamp < t - Hour

EvictionSweeperQuiet ==
  /\ conversations' =
       [k \in {x \in DOMAIN conversations : ~Stale(conversations[x], now)}
          |-> conversations[k]]
  /\ last' = [NoStep EXCEPT !.kind = "sweep", !.outcome = "ok",
                !.dirty = IF conversations' # conversations
                          THEN {"conversations"} ELSE {},
                !.emits = IF conversations' # conversations
                          THEN <<ChatUpdated(conversations')>> ELSE <<>>]
  /\ UNCHANGED <<now, conn, customers, agents, store, rooms, handlers, nevents,
                 published, failedMsgs, raced, creator, chain>>
EvictionSweeper ==
  /\ conversations' =
       [k \in {x \in DOMAIN conversations : ~Stale(conversations[x], now)}
          |-> conversations[k]]
  /\ last' = [NoStep EXCEPT !.kind = "sweep", !.outcome = "ok",
                !.dirty = IF conversations' # conversations
                          THEN {"conversations"} ELSE {},
                !.emits = <<ChatUpdated(conversations')>>]
  /\ UNCHANGED <<now, conn, customers, agents, store, rooms, handlers, nevents,
                 published, failedMsgs, raced, creator, chain>>

\* ------------------------------------------------------------------- Next
Next ==
  \/ \E c \in Sockets : Disconnect(c)
  \/ Tick
  \/ \E c \in Sockets, k \in Convs, bot \in Bots, user \in Users, email \in Emails :
       CustomerJoin(c, k, bot, user, email)
  \/ \E c \in Sockets, k \in Convs : AgentJoin(c, k)
  \/ \E c \in Sockets, k \in Convs, bot \in Bots, user \in Users, sender \in Senders :
       MessageSend(c, k, bot, user, sender)
  \/ \E h \in handlers : StoreSelect(h)
  \/ \E h \in handlers : StoreUpsert(h)
  \/ \E h \in handlers : CustomerJoinRead(h)
  \/ \E h \in handlers : CustomerJoinUpsert(h)
  \/ \E h \in handlers : AgentJoinRead(h)
  \/ \E h \in handlers : MessageSendRead(h)
  \/ \E h \in handlers : MessageSendUpsert(h)
  \/ EvictionSweeper

Spec == Init /\ [][Next]_vars

\* ------------------------------------------------------------- scheduling
\* The store may leave the calls of one connection unanswered for ever; every
\* call of another connection is answered.  The event loop resumes a handler
\* whose awaited promise has settled, and the interval timer keeps firing.
HungSock == "s1"

StoreAnswers(i) ==
  \E h \in handlers :
    /\ h.id = i
    /\ h.sock # HungSock
    /\ (StoreSelect(h) \/ StoreUpsert(h))

Resumes(i) ==
  \E h \in handlers :
    /\ h.id = i
    /\ \/ CustomerJoinRead(h)
       \/ CustomerJoinUpsert(h)
       \/ AgentJoinRead(h)
       \/ MessageSendRead(h)
       \/ MessageSendUpsert(h)

\* the clock stands still
NextFair ==
  \/ \E c \in Sockets : Disconnect(c)
  \/ \E c \in Sockets, k \in Convs, bot \in Bots, user \in Users, email \in Emails :
       CustomerJoin(c, k, bot, user, email)
  \/ \E c \in Sockets, k \in Convs : AgentJoin(c, k)
  \/ \E c \in Sockets, k \in Convs, bot \in Bots, user \in Users, sender \in Senders :
       MessageSend(c, k, bot, user, sender)
  \/ \E h \in handlers : StoreSelect(h)
  \/ \E h \in handlers : StoreUpsert(h)
  \/ \E h \in handlers : CustomerJoinRead(h)
  \/ \E h \in handlers : CustomerJoinUpsert(h)
  \/ \E h \in handlers : AgentJoinRead(h)
  \/ \E h \in handlers : MessageSendRead(h)
  \/ \E h \in handlers : MessageSendUpsert(h)
  \/ EvictionSweeper

SpecFair ==
  /\ Init
  /\ [][NextFair]_vars
  /\ \A i \in 1..MaxEvents : WF_vars(StoreAnswers(i)) /\ WF_vars(Resumes(i))
  /\ WF_vars(EvictionSweeper)

\* ------------------------------------------- racing sends on a joined chat
\* The state right after s1's customer:join of the new conversation c1 has
\* completed on an empty table (lines 99-134); events are counted from here.
JoinedHandler ==
  [id |-> 0, kind |-> "customer:join", sock |-> "s1", convId |-> "c1",
   chatbotId |-> "bot", userId |-> "u1", customerEmail |-> "a@x",
   pc |-> "upserted", cur |-> <<>>, message |-> NullMsg,
   dirty |-> {"customers"}]

InitJoined ==
  /\ now = 0
  /\ conn = [c \in Sockets |-> "open"]
  /\ customers = Put(EmptyMap, "s1", Session(JoinedHandler))
  /\ agents = EmptyMap
  /\ conversations = Put(EmptyMap, "c1", Summary(JoinedHandler))
  /\ store = Put(EmptyMap, "c1",
                 [messages |-> <<>>, customer_name |-> "a@x",
                  chatbot_id |-> "bot", user_id |-> Null])
  /\ rooms = [c \in Sockets |-> IF c = "s1" THEN {"c1"} ELSE {}]
  /\ handlers = {}
  /\ nevents = 0
  /\ last = Step(JoinedHandler, "ok", {"customers", "conversations", "rooms"},
                 <<ChatUpdated(conversations),
                   ChatJoined("s1", "c1", "a@x")>>)
  /\ published = {}
  /\ failedMsgs = {}
  /\ raced = {}
  /\ creator = [k \in Convs |-> IF k = "c1" THEN "s1" ELSE "none"]
  /\ chain = [c \in Sockets |-> NoChain]

\* only message:send events arrive
NextSends ==
  \/ \E c \in Sockets, k \in Convs, bot \in Bots, user \in Users, sender \in Senders :
       MessageSend(c, k, bot, user, sender)
  \/ \E h \in handlers : StoreSelect(h)
  \/ \E h \in handlers : StoreUpsert(h)
  \/ \E h \in handlers : MessageSendRead(h)
  \/ \E h \in handlers : MessageSendUpsert(h)

SpecSends == InitJoined /\ [][NextSends]_vars

\* =================================================================== claims
Failed(step) == step.outcome \in {"readError", "upsertError"}
Events(step) == {step.emits[i].ev : i \in DOMAIN step.emits}
Texts(log)   == {log[i].text : i \in DOMAIN log}

\* C1: a message:send whose store read or store write fails never has its
\* message published as message:received, the handler leaves the Conversation
\* Index untouched, and no chat:updated (nor the index itself) carries the
\* message.
C1_NoBroadcastWithoutPersistence ==
  /\ failedMsgs \cap published = {}
  /\ \A k \in DOMAIN conversations :
       conversations[k].lastMessage \notin failedMsgs
  /\ (last.kind = "message:send" /\ last.message \in failedMsgs) =>
       /\ "conversations" \notin last.dirty
       /\ Events(last) \cap {"message:received", "chat:updated"} = {}
  /\ \A i \in DOMAIN last.emits :
       last.emits[i].ev = "chat:updated" =>
         \A su \in last.emits[i].summaries : su.lastMessage \notin failedMsgs

\* a send whose upsert failed has just ended, for a conversation that is in
\* the index and has a connected subscriber
C1_Witness ==
  /\ last.kind = "message:send"
  /\ last.outcome = "upsertError"
  /\ last.message \in failedMsgs
  /\ last.convId \in DOMAIN conversations
  /\ RoomMembers(last.convId, rooms) # {}

\* C2: a non-empty stored MessageLog is never replaced by an empty one
\* (the upsert of customer:join is applied only to an empty stored log).
C2_JoinNeverShrinksHistory ==
  [][\A k \in DOMAIN store :
       store[k].messages # <<>> => store'[k].messages # <<>>]_vars

\* C3: two sends to one conversation that both read the log before either
\* wrote never end up together in the stored log: the later write replaces
\* the earlier one.
C3_LastWriterWins ==
  \A p \in raced : \A k \in DOMAIN store : ~(p \subseteq Texts(store[k].messages))

\* both racing sends succeeded and were broadcast, no handler is running, and
\* the stored log holds exactly one of the two messages
C3_Witness ==
  \E p \in raced :
    /\ handlers = {}
    /\ p \subseteq Texts(<<>>) \cup {m.text : m \in published}
    /\ \E k \in DOMAIN store :
         Cardinality(p \cap Texts(store[k].messages)) = 1

\* C4: after a run of sequential successful sends m1..mk of one socket to one
\* conversation, with no other handler writing that conversation meanwhile,
\* the stored log is the log from before m1 followed by m1..mk in order.
C4_SequentialSendsKeepOrder ==
  \A c \in Sockets :
    (chain[c].live /\ InFlightSends(c) = {} /\ Len(chain[c].msgs) >= 1) =>
      ReadLog(chain[c].convId) = chain[c].base \o chain[c].msgs

\* two sequential sends have completed on top of a non-empty earlier log
C4_Witness ==
  \E c \in Sockets :
    /\ chain[c].live
    /\ InFlightSends(c) = {}
    /\ Len(chain[c].msgs) = 2
    /\ Len(chain[c].base) >= 1

\* C5: the upsert of customer:join (createConversation) is applied for one
\* conversation id by at most one socket.
C5_CreateRunsOnce ==
  ~(last.outcome = "created" /\ creator[last.convId] # last.sock)

\* C6: once a socket's disconnect has been handled, neither session map has
\* an entry for it.
C6_NoSessionAfterDisconnect ==
  \A c \in Sockets :
    conn[c] = "closed" => (c \notin DOMAIN customers /\ c \notin DOMAIN agents)

\* C7: a run of the eviction sweeper at time `now` keeps exactly the summaries
\* whose timestamp is not earlier than now minus one hour, unchanged.
C7_SweepKeepsExactlyTheRecent ==
  [][EvictionSweeper =>
       /\ DOMAIN conversations' =
            {k \in DOMAIN conversations :
               conversations[k].timestamp >= now - Hour}
       /\ \A k \in DOMAIN conversations' : conversations'[k] = conversations[k]
    ]_vars

\* a sweep has just removed one summary and kept another
C7_Witness ==
  /\ last.kind = "sweep"
  /\ "conversations" \in last.dirty
  /\ DOMAIN conversations # {}

\* C8: a customer:join with a failed store call does not subscribe its socket
\* to the conversation's room and emits an error event to that socket.
C8_FailedJoinNotSubscribed ==
  (last.kind = "customer:join" /\ Failed(last)) =>
    /\ "rooms" \notin last.dirty
    /\ \E i \in DOMAIN last.emits :
         last.emits[i].ev = "error" /\ last.emits[i].to = {last.sock}

\* a customer:join has just ended on a failed upsert, its socket still open
C8_Witness ==
  /\ last.kind = "customer:join"
  /\ last.outcome = "upsertError"
  /\ conn[last.sock] = "open"
  /\ last.convId \notin rooms[last.sock]

\* C9: a customer:join that fails on a store error has changed neither the
\* session registry nor the conversation index.
C9_FailedJoinMutatesNothing ==
  (last.kind = "customer:join" /\ Failed(last)) => last.dirty = {}

\* C10: a handler that fails emits exactly one event, an error addressed to
\* its own socket and to no other.
C10_ErrorToOriginOnly ==
  Failed(last) =>
    /\ Len(last.emits) = 1
    /\ last.emits[1].ev = "error"
    /\ last.emits[1].to = {last.sock}

\* a message:send has just failed while another connected socket is
\* subscribed to the conversation's room
C10_Witness ==
  /\ Failed(last)
  /\ last.kind = "message:send"
  /\ \E c \in Open \ {last.sock} : last.convId \in rooms[c]

\* C11: whenever no handler is suspended on a store call, every summary of the
\* index with a lastMessage has, as lastMessage, the last element of the
\* conversation's stored log.
C11_LastMessageIsLastStored ==
  handlers = {} =>
    \A k \in DOMAIN conversations :
      conversations[k].lastMessage # NullMsg =>
        /\ ReadLog(k) # <<>>
        /\ conversations[k].lastMessage = ReadLog(k)[Len(ReadLog(k))]

\* C12: a message:send that completes successfully emits message:received
\* with its message to exactly the connected sockets subscribed to the
\* conversation's room (the sender too if it is subscribed, no socket outside
\* the room); message:received is emitted only by a handler whose upsert the
\* store has applied, and that upsert put the message at the end of the log.
C12_BroadcastToSubscribersAfterWrite ==
  [][/\ \A h \in handlers :
          (h.kind = "message:send" /\ h.pc = "upserted" /\ h \notin handlers') =>
            /\ \E i \in DOMAIN last'.emits :
                 last'.emits[i] =
                   [ev |-> "message:received",
                    to |-> {c \in Open : h.convId \in rooms[c]},
                    message |-> h.message]
            /\ \A i \in DOMAIN last'.emits :
                 last'.emits[i].ev = "message:received" =>
                   last'.emits[i].to = {c \in Open : h.convId \in rooms[c]}
     /\ \A i \in DOMAIN last'.emits :
          (last' # last /\ last'.emits[i].ev = "message:received") =>
            \E h \in handlers :
              /\ h.kind = "message:send"
              /\ h.pc = "upserted"
              /\ h \notin handlers'
              /\ h.message = last'.emits[i].message
     /\ \A h \in handlers :
          (/\ h.kind = "message:send"
           /\ h.pc = "upsert"
           /\ [h EXCEPT !.pc = "upserted"] \in handlers') =>
            /\ store'[h.convId].messages # <<>>
            /\ store'[h.convId].messages[Len(store'[h.convId].messages)]
                 = h.message
    ]_vars

\* a send has just succeeded; its sender is subscribed and received the
\* message, another connected socket is not subscribed and did not
C12_Witness ==
  /\ last.kind = "message:send"
  /\ last.outcome = "ok"
  /\ last.sock \in last.emits[1].to
  /\ last.emits[1].ev = "message:received"
  /\ Open \ last.emits[1].to # {}

\* C13: a message:send that completes successfully emits chat:updated with
\* the index snapshot to every connected socket, whether or not its
\* conversation is in the index.
C13_SendRebroadcastsIndex ==
  (last.kind = "message:send" /\ last.outcome = "ok") =>
    \E i \in DOMAIN last.emits :
      /\ last.emits[i].ev = "chat:updated"
      /\ last.emits[i].to = Open
      /\ last.emits[i].summaries = Snapshot(conversations)

\* the step completes customer:join handler h successfully: on the resume from
\* a non-empty read, or on the resume from an applied upsert
JoinCompletes(h) ==
  /\ h.kind = "customer:join"
  /\ h \notin handlers'
  /\ \/ h.pc = "rows" /\ ~IsNewConversation(h.cur)
     \/ h.pc = "upserted"

\* what a completed customer:join has emitted and left behind
JoinAnnounced(h) ==
  /\ h.convId \in rooms'[h.sock]
  /\ last'.emits =
       <<[ev |-> "chat:updated", to |-> Open,
          summaries |-> Snapshot(conversations')],
         [ev |-> "chat:joined", to |-> {h.sock},
          ack |-> [convId |-> h.convId, customerEmail |-> h.customerEmail]]>>
  /\ h.pc = "upserted" =>
       /\ h.convId \in DOMAIN conversations'
       /\ conversations'[h.convId].convId = h.convId
       /\ conversations'[h.convId].lastMessage = NullMsg
       /\ h.convId \in DOMAIN store'

\* a customer:join resuming from a successful read registers its session
JoinRegisters ==
  \A h \in handlers :
    (h.kind = "customer:join" /\ h.pc = "rows" /\ h \notin handlers') =>
      customers'[h.sock] = Session(h)

\* C14 (as stated): a customer:join that completes successfully has
\* registered its session and subscribed its socket, emits chat:updated with
\* the whole index to every connected socket and chat:joined {convId,
\* customerEmail} to its own socket only; if it read an empty log, the snapshot
\* has the conversation's summary with lastMessage null and the stored log of
\* the conversation is empty.
C14_JoinAnnouncesEmptyLog ==
  [][/\ JoinRegisters
     /\ \A h \in handlers :
          JoinCompletes(h) =>
            /\ JoinAnnounced(h)
            /\ h.pc = "upserted" => store'[h.convId].messages = <<>>
    ]_vars

\* C14 (amended): as above, but the stored log is empty when the join's
\* upsert is applied; when the join completes the store holds a row for the
\* conversation, to which a message:send may already have appended.
C14_JoinAnnounces ==
  [][/\ JoinRegisters
     /\ \A h \in handlers :
          JoinCompletes(h) => JoinAnnounced(h)
     /\ \A h \in handlers :
          (/\ h.kind = "customer:join"
           /\ h.pc = "upsert"
           /\ [h EXCEPT !.pc = "upserted"] \in handlers') =>
            /\ h.convId \in DOMAIN store'
            /\ store'[h.convId].messages = <<>>
    ]_vars

\* a customer:join of a new conversation has just completed with both sockets
\* connected, and a concurrent send has already appended to the stored log
C14_Witness ==
  /\ last.kind = "customer:join"
  /\ last.outcome = "ok"
  /\ "conversations" \in last.dirty
  /\ Open = Sockets
  /\ conversations[last.convId].lastMessage = NullMsg
  /\ store[last.convId].messages # <<>>

\* C15: at every moment the rooms of a connected socket are none, or exactly
\* the room of the conversation recorded in its customer or agent session.
C15_AtMostOneConversation ==
  \A c \in Open :
    \/ rooms[c] = {}
    \/ c \in DOMAIN customers /\ rooms[c] = {customers[c].convId}
    \/ c \in DOMAIN agents /\ rooms[c] = {agents[c].convId}

\* C16: a message:send to a conversation that is not in the index, when it
\* completes successfully, leaves the index as it was (no summary is created)
\* and emits message:received to the room; the upsert the store applied for
\* it put the message at the end of the stored log.
C16_SendToUnindexedLeavesIndex ==
  [][\A h \in handlers :
       (h.kind = "message:send" /\ h.convId \notin DOMAIN conversations) =>
         /\ (h.pc = "upserted" /\ h \notin handlers') =>
              /\ conversations' = conversations
              /\ \E i \in DOMAIN last'.emits :
                   /\ last'.emits[i].ev = "message:received"
                   /\ last'.emits[i].message = h.message
                   /\ last'.emits[i].to = RoomMembers(h.convId, rooms)
         /\ (h.pc = "upsert" /\ [h EXCEPT !.pc = "upserted"] \in handlers') =>
              /\ h.convId \in DOMAIN store'
              /\ store'[h.convId].messages = Append(h.cur, h.message)
    ]_vars

\* a send to a conversation outside the index has just succeeded: the index
\* has no summary for it, the stored log holds the message, a subscriber got it
C16_Witness ==
  /\ last.kind = "message:send"
  /\ last.outcome = "ok"
  /\ last.convId \notin DOMAIN conversations
  /\ last.message.text \in Texts(ReadLog(last.convId))
  /\ last.emits[1].to # {}

\* C17: a run of the eviction sweeper changes neither the table, nor the
\* customer sessions, nor the agent sessions, nor any room, nor a running
\* handler; the index only loses summaries, and the run emits exactly one
\* chat:updated, to every connected socket, with the index as it is after the
\* run, whether or not a summary was removed.
C17_SweepTouchesOnlyIndex ==
  [][last'.kind = "sweep" =>
       /\ UNCHANGED <<store, customers, agents, rooms, handlers>>
       /\ DOMAIN conversations' \subseteq DOMAIN conversations
       /\ \A k \in DOMAIN conversations' : conversations'[k] = conversations[k]
       /\ last'.emits =
            <<[ev |-> "chat:updated", to |-> Open,
               summaries |-> Snapshot(conversations')]>>
    ]_vars

\* a sweep has just run and evicted nothing, while the table, the customer
\* sessions, the rooms and the index all hold something
C17_Witness ==
  /\ last.kind = "sweep"
  /\ last.dirty = {}
  /\ DOMAIN conversations # {}
  /\ DOMAIN customers # {}
  /\ DOMAIN store # {}
  /\ \E c \in Sockets : rooms[c] # {}

\* C18: no step of an agent:join handler changes the index, the table or the
\* customer sessions, and the handler never issues an upsert; resuming from a
\* successful read it sets the socket's agent session and adds the socket to
\* the conversation's room, and does nothing else; resuming from a failed
\* read it changes neither.
C18_AgentJoinTouchesOnlyItsSession ==
  [][\A h \in handlers :
       (h.kind = "agent:join" /\ h \notin handlers') =>
         /\ UNCHANGED <<conversations, store, customers>>
         /\ \A g \in handlers' : g.id = h.id => g.pc \in {"rows", "readError"}
         /\ h.pc = "rows" =>
              /\ agents' = Put(agents, h.sock, [convId |-> h.convId])
              /\ rooms' = [rooms EXCEPT ![h.sock] = @ \cup {h.convId}]
              /\ last'.emits = <<>>
         /\ h.pc # "rows" => UNCHANGED <<agents, rooms>>
    ]_vars

\* an agent:join has just succeeded, registering the agent and subscribing
\* it, while the index and the table hold a conversation
C18_Witness ==
  /\ last.kind = "agent:join"
  /\ last.outcome = "ok"
  /\ last.dirty = {"agents", "rooms"}
  /\ agents[last.sock].convId = last.convId
  /\ DOMAIN conversations # {}
  /\ DOMAIN store # {}

\* C19: whatever happens to the store calls of one connection, which may stay
\* unanswered for ever, every handler started for another connection runs to
\* its end (its last step emits its success events or an error), and the
\* eviction sweeper keeps running.
C19_OthersCompleteWhileOneHangs ==
  /\ \A i \in 1..MaxEvents :
       (\E h \in handlers : h.id = i /\ h.sock # HungSock)
         ~> (/\ \A h \in handlers : h.id # i
             /\ nevents >= i)
  /\ []<>(last.kind = "sweep")

\* the first event's handler, of the hanging connection, is still waiting for
\* its select while the second event's handler, of another connection, has
\* just completed
C19_Witness ==
  /\ \E h \in handlers : h.id = 1 /\ h.sock = HungSock /\ h.pc = "read"
  /\ nevents = 2
  /\ last.sock # HungSock
  /\ last.outcome = "ok"
  /\ last.kind \in {"customer:join", "agent:join", "message:send"}

\* conversation k has a non-empty stored log and no summary in the index
StoredUnindexed(k) == ReadLog(k) # <<>> /\ k \notin DOMAIN conversations

\* a customer:join of k that read an empty log has not completed yet
EmptyReadJoin(k) ==
  \E h \in handlers :
    /\ h.kind = "customer:join"
    /\ h.convId = k
    /\ \/ h.pc = "rows" /\ h.cur = <<>>
       \/ h.pc \in {"upsert", "upserted"}

\* C20 (as stated): no step puts a conversation into the index that has a
\* non-empty stored log and is absent from the index.
C20_NeverReindexed ==
  [][\A k \in Convs :
       StoredUnindexed(k) => k \notin DOMAIN conversations']_vars

\* C20 (amended): once a conversation has a non-empty stored log, is absent
\* from the index and no customer:join of it that read an empty log is still
\* running, all three stay so: no later customer:join, agent:join or
\* message:send puts it into the index.
C20_StaysOutOfIndex ==
  [][\A k \in Convs :
       (StoredUnindexed(k) /\ ~EmptyReadJoin(k)) =>
         (StoredUnindexed(k) /\ ~EmptyReadJoin(k))']_vars

\* a customer:join of a stored, unindexed conversation has just completed
\* after a send was published, and the conversation is still not in the index
C20_Witness ==
  /\ last.kind = "customer:join"
  /\ last.outcome = "ok"
  /\ StoredUnindexed(last.convId)
  /\ handlers = {}
  /\ published # {}

====
